---- MODULE Spec2Model ----
(***************************************************************************)
(* Model of the data layer of the hybrid-hiring Meteor scaffold:           *)
(*   - server/main.ts                  the startup seeder and 'links'      *)
(*   - imports/api/users/publications  'users.all' and 'users.byName'      *)
(*   - imports/api/users/methods       Users.create/update/remove/find     *)
(* Strings that the code inspects character by character (names, name      *)
(* filters, identifiers) are sequences of one-character strings.  Values   *)
(* that arrive from a remote caller are tagged with their JavaScript type  *)
(* so that check() can be modelled by what it tests.                       *)
(***************************************************************************)
EXTENDS Integers, Sequences, FiniteSets, TLC

VARIABLES
  links,      \* LinksCollection: documents in insertion order
  users,      \* UsersCollection: _id -> document (field -> value)
  nextId,     \* number of identifiers the store has handed out for users, plus 1
  srv,        \* "off" | "loaded" (modules imported) | "up" (startup done)
  published,  \* names registered with Meteor.publish
  run,        \* what the most recent Meteor.startup callback observed and did
  writes,     \* number of method calls that have written to the users collection
  reply,      \* the most recent method call / subscription and its outcome
  before,     \* for a Users.find: the reply the caller held when issuing it
  fresh,      \* ids that Users.create inserted with a createdAt later than
              \* that of every row existing at that moment
  pending,    \* store operations a method handler has issued and the store
              \* has not completed, oldest first
  clock,      \* UsersManager: seconds since the component was mounted
  status,     \* UsersManager: the status message on display, or NoStatus
  timers      \* UsersManager: due times of the timeouts flash has set

vars == <<links, users, nextId, srv, published, run, writes, reply, before, fresh,
          pending, clock, status, timers>>

\* What the server-side actions leave alone: the client component's state.
ui == <<clock, status, timers>>

----------------------------------------------------------------------------
(* Bounds                                                                  *)

MaxIds == 4      \* user identifiers the store hands out
MaxRuns == 2     \* process starts
MaxWrites == 2   \* method calls that change the users collection
MaxTime == 5     \* seconds the mounted page is followed for

----------------------------------------------------------------------------
(* Tagged values                                                           *)

Str(s) == [t |-> "str", s |-> s]
Dt(d) == [t |-> "date", d |-> d]
Obj(f) == [t |-> "obj", f |-> f]
Num == [t |-> "num"]
Null == [t |-> "null"]
Undef == [t |-> "undef"]
Count(n) == [t |-> "count", n |-> n]
Rows(r) == [t |-> "rows", r |-> r]

IsStr(v) == v.t = "str"
IsDate(v) == v.t = "date"
IsObj(v) == v.t = "obj"

\* Names used by callers, written out as character sequences.
Natalie == <<"N", "a", "t", "a", "l", "i", "e">>
Bob == <<"B", "o", "b">>

\* Random.id(): the n-th identifier the store hands out.
IdOf(n) == <<"u", CASE n = 1 -> "1" [] n = 2 -> "2" [] n = 3 -> "3"
                    [] n = 4 -> "4" [] n = 5 -> "5" [] OTHER -> "6">>

----------------------------------------------------------------------------
(* server/main.ts: seed data                                               *)

seedLinks ==
  << [title |-> "Do the Tutorial",
      url |-> "https://react-tutorial.meteor.com/simple-todos/01-creating-app.html"],
     [title |-> "Follow the Guide", url |-> "https://guide.meteor.com"],
     [title |-> "Read the Docs", url |-> "https://docs.meteor.com"],
     [title |-> "Discussions", url |-> "https://forums.meteor.com"] >>

seedUsers ==
  << [name |-> Str(<<"A", "l", "i", "c", "e", " ", "J", "o", "h", "n", "s", "o", "n">>),
      createdAt |-> Dt(20250115)],
     [name |-> Str(<<"B", "o", "b", " ", "S", "m", "i", "t", "h">>),
      createdAt |-> Dt(20250322)],
     [name |-> Str(<<"C", "a", "r", "o", "l", " ", "W", "h", "i", "t", "e">>),
      createdAt |-> Dt(20250610)] >>

\* `new Date()` while the seeder runs: a timestamp of the server clock.  No
\* code in the repository reads a link's createdAt, so one value stands for it.
Now == Dt(20260101)

NoUsers == [i \in {} |-> Undef]
NoReply == [op |-> "none", args |-> <<>>, err |-> "none", val |-> Undef,
            pre |-> Undef, sel |-> Undef]
NoStatus == [text |-> "", ok |-> TRUE, at |-> -1]
NoRun == [n |-> 0, linksSeen |-> -1, linkIns |-> 0, usersSeen |-> -1, userIns |-> 0,
          failed |-> "none", everFailed |-> FALSE]

Init ==
  /\ links = <<>>
  /\ users = NoUsers
  /\ nextId = 1
  /\ srv = "off"
  /\ published = {}
  /\ run = NoRun
  /\ writes = 0
  /\ reply = NoReply
  /\ before = NoReply
  /\ fresh = {}
  /\ pending = <<>>
  /\ clock = 0
  /\ status = NoStatus
  /\ timers = {}

----------------------------------------------------------------------------
(* server/main.ts: Meteor.startup                                          *)

\* Faulty variant: Meteor.publish('links', ...) moved to the top level of
\* the module, so that it runs when the bundle loads.
Boot_PublishesLinks ==
  /\ srv = "off"
  /\ run.n < MaxRuns
  /\ srv' = "loaded"
  /\ published' = {"users.all", "users.byName", "links"}
  /\ reply' = NoReply
  /\ before' = NoReply
  /\ UNCHANGED <<links, users, nextId, run, writes, fresh, pending, ui>>

\* Loading the server bundle: `import '/imports/api/users'` registers the
\* two users publications (and the methods) before any startup hook runs.
Boot ==
  /\ srv = "off"
  /\ run.n < MaxRuns
  /\ srv' = "loaded"
  /\ published' = {"users.all", "users.byName"}
  /\ reply' = NoReply
  /\ before' = NoReply
  /\ UNCHANGED <<links, users, nextId, run, writes, fresh, pending, ui>>

\* insertLink({title, url}) for the first k seed links.
InsertedLinks(old, k) ==
  old \o [i \in 1..k |-> [_id |-> Len(old) + i, title |-> seedLinks[i].title,
                          url |-> seedLinks[i].url, createdAt |-> Now]]

\* UsersCollection.insertAsync(user) for the first k seed users.
InsertedUsers(old, first, k) ==
  [id \in DOMAIN old \cup {IdOf(first + i - 1) : i \in 1..k} |->
     IF id \in DOMAIN old THEN old[id]
     ELSE LET i == CHOOSE j \in 1..k : IdOf(first + j - 1) = id IN seedUsers[i]]

\* Faulty variant: the emptiness guard dropped.
ShouldSeed_Always(count) == count >= 0

\* `(await X.find().countAsync()) === 0`
ShouldSeed(count) == count = 0

\* The store operations of one startup run, in program order:
\*   1 links count, 2..5 link inserts, 6 users count, 7..9 user inserts.
\* fault = 0: every store operation succeeds; fault = p: operation p rejects.
StartupWith(fault) ==
  LET linksEmpty == ShouldSeed(Len(links))
      linksFail  == fault = 1 \/ (linksEmpty /\ fault \in 2..5)
      nLinks     == IF fault = 1 \/ ~linksEmpty THEN 0
                    ELSE IF fault \in 2..5 THEN fault - 2 ELSE 4
      usersEmpty == ShouldSeed(Cardinality(DOMAIN users))
      usersFail  == ~linksFail /\ (fault = 6 \/ (usersEmpty /\ fault \in 7..9))
      nUsers     == IF linksFail \/ fault = 6 \/ ~usersEmpty THEN 0
                    ELSE IF fault \in 7..9 THEN fault - 7 ELSE 3
      failed     == IF linksFail THEN "links" ELSE IF usersFail THEN "users" ELSE "none"
  IN
  /\ srv = "loaded"
  /\ nextId + nUsers - 1 <= MaxIds
  /\ links' = InsertedLinks(links, nLinks)
  /\ users' = InsertedUsers(users, nextId, nUsers)
  /\ nextId' = nextId + nUsers
  /\ run' = [n |-> run.n + 1,
             linksSeen |-> IF fault = 1 THEN -1 ELSE Len(links),
             linkIns |-> nLinks,
             usersSeen |-> IF linksFail \/ fault = 6 THEN -1 ELSE Cardinality(DOMAIN users),
             userIns |-> nUsers,
             failed |-> failed,
             everFailed |-> run.everFailed \/ failed # "none"]
  \* a rejected startup hook ends the process; otherwise 'links' is published
  /\ srv' = IF failed = "none" THEN "up" ELSE "off"
  /\ published' = IF failed = "none" THEN published \cup {"links"} ELSE {}
  /\ reply' = NoReply
  /\ before' = NoReply
  /\ UNCHANGED <<writes, fresh, pending, ui>>

Startup == StartupWith(0)

StartupFault == \E fault \in 1..9 : StartupWith(fault)

\* The process stops; the store is persistent.
Shutdown ==
  /\ srv = "up"
  /\ srv' = "off"
  /\ published' = {}
  /\ reply' = NoReply
  /\ before' = NoReply
  /\ UNCHANGED <<links, users, nextId, run, writes, fresh, pending, ui>>

----------------------------------------------------------------------------
(* meteor/check patterns used by the methods and publications              *)

\* check(x, String)
CheckString(x) == IsStr(x)

\* Faulty variant: the pattern wrapped in Match.ObjectIncluding, so that
\* extra keys pass.
CheckCreateData_Including(data) ==
  /\ IsObj(data)
  /\ {"name", "createdAt"} \subseteq DOMAIN data.f
  /\ IsStr(data.f["name"])
  /\ IsDate(data.f["createdAt"])

\* check(data, { name: String, createdAt: Date }): a plain object with
\* exactly these keys, each of the stated type.
CheckCreateData(data) ==
  /\ IsObj(data)
  /\ DOMAIN data.f = {"name", "createdAt"}
  /\ IsStr(data.f["name"])
  /\ IsDate(data.f["createdAt"])

\* Faulty variant: the exact pattern { $set: Object }, which refuses extra keys.
CheckUpdateData_Exact(data) ==
  /\ IsObj(data)
  /\ DOMAIN data.f = {"$set"}
  /\ IsObj(data.f["$set"])

\* Faulty variant: $set made optional.
CheckUpdateData_OptionalSet(data) ==
  /\ IsObj(data)
  /\ "$set" \in DOMAIN data.f => IsObj(data.f["$set"])

\* check(data, Match.ObjectIncluding({ $set: Object })): a plain object that
\* has a $set key holding a plain object; other keys are allowed.
CheckUpdateData(data) ==
  /\ IsObj(data)
  /\ "$set" \in DOMAIN data.f
  /\ IsObj(data.f["$set"])

----------------------------------------------------------------------------
(* Mongo.Collection operations the handlers call                            *)

\* Keys of a modifier that begin with '$'.
IsOperatorKey(k) == k \in {"$set", "$setOnInsert"}

\* The store refuses a modifier that mixes operator and plain keys
\* ("Update parameter cannot have both modifier and non-modifier fields").
StoreAcceptsModifier(data) == \A k \in DOMAIN data.f : IsOperatorKey(k)

\* The store refuses an update that would give a matched document another
\* _id ("would modify the immutable field '_id'").
StoreKeepsId(coll, id, data) ==
  (id \in DOMAIN coll /\ "_id" \in DOMAIN data.f["$set"].f)
    => data.f["$set"].f["_id"] = Str(id)

\* f overrides g on the keys f defines ($set semantics).
Override(f, g) ==
  [k \in DOMAIN f \cup DOMAIN g |-> IF k \in DOMAIN f THEN f[k] ELSE g[k]]

\* The document as a caller receives it: its fields and its _id.
Row(coll, id) == Obj(Override([_id |-> Str(id)], coll[id]))

\* Faulty variant: the server stamps createdAt itself.
NewDoc_Stamped(data) == [name |-> data.f["name"], createdAt |-> Now]

\* insertAsync({ ...data }): the document stored for a create payload.
NewDoc(data) == data.f

\* { sort: { createdAt: -1 } } orders by this key.
SortKey(doc) == doc["createdAt"].d

\* Faulty variant: the modifier is applied with { multi: true } to a selector
\* that matches every document.
UpdatedUsers_Multi(coll, id, data) ==
  IF id \in DOMAIN coll
    THEN [k \in DOMAIN coll |-> Override(data.f["$set"].f, coll[k])]
    ELSE coll

\* Faulty variant: an update also re-stamps createdAt.
UpdatedUsers_Restamp(coll, id, data) ==
  IF id \in DOMAIN coll
    THEN [coll EXCEPT ![id] = Override([createdAt |-> Now], Override(data.f["$set"].f, @))]
    ELSE coll

\* UsersCollection.updateAsync(_id, data): no upsert, one document by _id.
UpdatedUsers(coll, id, data) ==
  IF id \in DOMAIN coll
    THEN [coll EXCEPT ![id] = Override(data.f["$set"].f, @)]
    ELSE coll

\* Faulty variant: an unmatched selector degenerates to the empty selector.
RemovedUsers_AllWhenUnmatched(coll, id) ==
  IF id \in DOMAIN coll THEN [k \in DOMAIN coll \ {id} |-> coll[k]] ELSE NoUsers

\* UsersCollection.removeAsync(_id)
RemovedUsers(coll, id) == [k \in DOMAIN coll \ {id} |-> coll[k]]

\* Number of documents a selector by _id matches.
Matched(coll, id) == IF id \in DOMAIN coll THEN 1 ELSE 0

\* A call record: the operation, its arguments, the error it ended with
\* ("none" when it resolved), the value it resolved with, and two ghosts:
\* pre, the target row as it was before an update, and sel, the selector a
\* publication handed to UsersCollection.find (Undef when find was not called).
Call(op, args, err, val, pre, sel) ==
  [op |-> op, args |-> args, err |-> err, val |-> val, pre |-> pre, sel |-> sel]

Rejected(op, args) == Call(op, args, "InvalidArgument", Undef, Undef, Undef)

----------------------------------------------------------------------------
(* imports/api/users/methods: the four methods                              *)

\* Arguments a remote caller may send.
InputNames == {Natalie, Bob}
InputDates == {20250322, 20250701}

CreateArgs ==
  {Obj([name |-> Str(n), createdAt |-> Dt(d)]) : n \in InputNames, d \in InputDates}
  \cup {Obj([createdAt |-> Dt(20250701)]),
        Obj([name |-> Num, createdAt |-> Dt(20250701)]),
        Obj([name |-> Str(Bob), createdAt |-> Str(Bob)]),
        Obj([_id |-> Str(IdOf(MaxIds)), name |-> Str(Bob), createdAt |-> Dt(20250701)]),
        Null}

IdStrings == {Str(IdOf(n)) : n \in 1..MaxIds}
IdArgs == IdStrings \cup {Num}

Modifiers ==
  {Obj("$set" :> Obj([name |-> Str(n)])) : n \in InputNames}
  \cup {Obj("$set" :> Obj([createdAt |-> Dt(20250701)]))}

\* A modifier with a plain key next to $set.
MixedModifier == Obj(("$set" :> Obj([name |-> Str(Bob)])) @@ ("note" :> Str(Bob)))

\* A modifier with a second operator next to $set ($setOnInsert has no effect
\* on an update without upsert).
TwoOperatorModifier ==
  Obj(("$set" :> Obj([name |-> Str(Bob)])) @@ ("$setOnInsert" :> Obj([name |-> Str(Natalie)])))

\* A modifier that names a field the Users type does not have.
OffSchemaModifier == Obj("$set" :> Obj([nickname |-> Str(Bob)]))

\* A modifier that names the identifier.
IdModifier == Obj("$set" :> Obj([_id |-> Str(IdOf(2))]))

\* Argument lists of Users.update: every identifier with every $set modifier,
\* and lists whose first or second argument is of the wrong shape or whose
\* modifier carries an extra key, an off-schema field or the identifier.
UpdateArgs ==
  (IdStrings \X Modifiers)
  \cup {<<Num, Obj("$set" :> Obj([name |-> Str(Bob)]))>>}
  \cup ({Str(IdOf(1))} \X {Obj([name |-> Str(Bob)]), Obj("$set" :> Str(Bob)),
                          MixedModifier, TwoOperatorModifier, OffSchemaModifier,
                          IdModifier})

\* Faulty variant: the new row is also written to the links collection.
create_IntoBoth(data) ==
  /\ srv = "up"
  /\ IF ~CheckCreateData(data)
       THEN /\ reply' = Rejected("Users.create", <<data>>)
            /\ UNCHANGED <<users, nextId, writes, fresh>>
       ELSE /\ nextId <= MaxIds
            /\ writes < MaxWrites
            /\ users' = Override(IdOf(nextId) :> NewDoc(data), users)
            /\ nextId' = nextId + 1
            /\ writes' = writes + 1
            /\ fresh' = IF \A id \in DOMAIN users :
                              SortKey(users[id]) < data.f["createdAt"].d
                           THEN fresh \cup {IdOf(nextId)} ELSE fresh
            /\ reply' = Call("Users.create", <<data>>, "none", Str(IdOf(nextId)),
                             Undef, Undef)
  /\ links' = IF CheckCreateData(data)
               THEN Append(links, [_id |-> Len(links) + 1, title |-> data.f["name"].s,
                                   url |-> "", createdAt |-> Now])
               ELSE links
  /\ before' = NoReply
  /\ UNCHANGED <<srv, published, run>>

\* create: check(data, { name: String, createdAt: Date }); return
\* UsersCollection.insertAsync({ ...data }).
create(data) ==
  /\ srv = "up"
  /\ IF ~CheckCreateData(data)
       THEN /\ reply' = Rejected("Users.create", <<data>>)
            /\ UNCHANGED <<users, nextId, writes, fresh>>
       ELSE /\ nextId <= MaxIds
            /\ writes < MaxWrites
            /\ users' = Override(IdOf(nextId) :> NewDoc(data), users)
            /\ nextId' = nextId + 1
            /\ writes' = writes + 1
            /\ fresh' = IF \A id \in DOMAIN users :
                              SortKey(users[id]) < data.f["createdAt"].d
                           THEN fresh \cup {IdOf(nextId)} ELSE fresh
            /\ reply' = Call("Users.create", <<data>>, "none", Str(IdOf(nextId)),
                             Undef, Undef)
  /\ before' = NoReply
  /\ UNCHANGED <<links, srv, published, run>>

update(id, data) ==
  /\ srv = "up"
  /\ IF ~CheckString(id) \/ ~CheckUpdateData(data)
       THEN /\ reply' = Rejected("Users.update", <<id, data>>)
            /\ UNCHANGED <<users, writes>>
       ELSE IF ~StoreAcceptsModifier(data) \/ ~StoreKeepsId(users, id.s, data)
       THEN /\ reply' = Call("Users.update", <<id, data>>, "StoreError", Undef,
                             Undef, Undef)
            /\ UNCHANGED <<users, writes>>
       ELSE /\ writes + Matched(users, id.s) <= MaxWrites
            /\ users' = UpdatedUsers(users, id.s, data)
            /\ writes' = writes + Matched(users, id.s)
            /\ reply' = Call("Users.update", <<id, data>>, "none",
                             Count(Matched(users, id.s)),
                             IF id.s \in DOMAIN users THEN Row(users, id.s) ELSE Undef,
                             Undef)
  /\ before' = NoReply
  /\ UNCHANGED <<links, nextId, srv, published, run, fresh>>

remove(id) ==
  /\ srv = "up"
  /\ IF ~CheckString(id)
       THEN /\ reply' = Rejected("Users.remove", <<id>>)
            /\ UNCHANGED <<users, writes>>
       ELSE /\ writes + Matched(users, id.s) <= MaxWrites
            /\ users' = RemovedUsers(users, id.s)
            /\ writes' = writes + Matched(users, id.s)
            /\ reply' = Call("Users.remove", <<id>>, "none",
                             Count(Matched(users, id.s)), Undef, Undef)
  /\ before' = NoReply
  /\ UNCHANGED <<links, nextId, srv, published, run, fresh>>

\* Faulty variant: an absent row is reported as an error.
findById_Throws(id) ==
  /\ srv = "up"
  /\ reply' = IF ~CheckString(id)
                THEN Rejected("Users.find", <<id>>)
                ELSE IF id.s \in DOMAIN users
                  THEN Call("Users.find", <<id>>, "none", Row(users, id.s), Undef, Undef)
                  ELSE Call("Users.find", <<id>>, "NotFound", Undef, Undef, Undef)
  /\ before' = IF reply.op \in {"Users.create", "Users.update"} THEN reply ELSE NoReply
  /\ UNCHANGED <<links, users, nextId, srv, published, run, writes, fresh>>

\* findById: check(_id, String); return UsersCollection.findOneAsync(_id).
findById(id) ==
  /\ srv = "up"
  /\ reply' = IF ~CheckString(id)
                THEN Rejected("Users.find", <<id>>)
                ELSE Call("Users.find", <<id>>, "none",
                          IF id.s \in DOMAIN users THEN Row(users, id.s) ELSE Undef,
                          Undef, Undef)
  /\ before' = IF reply.op \in {"Users.create", "Users.update"} THEN reply ELSE NoReply
  /\ UNCHANGED <<links, users, nextId, srv, published, run, writes, fresh>>

\* Meteor.methods: a remote caller invokes a method by name.
UsersCreate == (\E data \in CreateArgs : create(data)) /\ UNCHANGED <<pending, ui>>
UsersUpdate == (\E a \in UpdateArgs : update(a[1], a[2])) /\ UNCHANGED <<pending, ui>>
UsersRemove == (\E id \in IdArgs : remove(id)) /\ UNCHANGED <<pending, ui>>
UsersFind == (\E id \in IdArgs : findById(id)) /\ UNCHANGED <<pending, ui>>

----------------------------------------------------------------------------
(* imports/api/users/publications: 'users.all' and 'users.byName'           *)

\* Case folding of the $options: 'i' flag, on the letters names are made of.
Lower(c) ==
  CASE c = "A" -> "a" [] c = "B" -> "b" [] c = "C" -> "c" [] c = "J" -> "j"
    [] c = "N" -> "n" [] c = "S" -> "s" [] c = "W" -> "w" [] OTHER -> c

\* { name: { $regex: nameFilter } }: nameFilter is the SOURCE of a regular
\* expression.  The engine below covers the syntax the filters of this model
\* use: a literal character, '.', a leading or inner '^', 'x*' and '('.
RegexValid(p) ==
  /\ \A i \in 1..Len(p) : p[i] # "("
  /\ \A i \in 1..Len(p) : p[i] = "*" => (i > 1 /\ p[i - 1] \notin {"*", "^"})

\* One pattern character against one subject character.
CharMatches(pc, c) == pc = "." \/ Lower(pc) = Lower(c)

RECURSIVE MatchHere(_, _, _, _)
\* Does p from position i on match s starting at position j?
MatchHere(p, i, s, j) ==
  IF i > Len(p) THEN TRUE
  ELSE IF i < Len(p) /\ p[i + 1] = "*"
    THEN \/ MatchHere(p, i + 2, s, j)
         \/ (j <= Len(s) /\ CharMatches(p[i], s[j]) /\ MatchHere(p, i, s, j + 1))
  ELSE IF p[i] = "^" THEN j = 1 /\ MatchHere(p, i + 1, s, j)
  ELSE j <= Len(s) /\ CharMatches(p[i], s[j]) /\ MatchHere(p, i + 1, s, j + 1)

\* An unanchored regular-expression search of p in s.
RegexTest(p, s) == \E j \in 1..(Len(s) + 1) : MatchHere(p, 1, s, j)

\* Identifiers of the documents { name: { $regex: p, $options: 'i' } } selects:
\* only string-valued names can match.
SelectByName(coll, p) ==
  {id \in DOMAIN coll :
     "name" \in DOMAIN coll[id] /\ IsStr(coll[id]["name"])
       /\ RegexTest(p, coll[id]["name"].s)}

\* The identifiers in ids whose createdAt is the latest among ids.
Latest(coll, ids) == {i \in ids : \A j \in ids : SortKey(coll[i]) >= SortKey(coll[j])}

\* The identifiers in ids whose createdAt is the earliest among ids.
Earliest(coll, ids) == {i \in ids : \A j \in ids : SortKey(coll[i]) <= SortKey(coll[j])}

RECURSIVE SortedDesc_Ascending(_, _)
\* Faulty variant: { sort: { createdAt: 1 } }.
SortedDesc_Ascending(coll, ids) ==
  IF ids = {} THEN {<<>>}
  ELSE UNION {{<<Row(coll, i)>> \o rest : rest \in SortedDesc_Ascending(coll, ids \ {i})} :
                i \in Earliest(coll, ids)}

RECURSIVE SortedDesc(_, _)
\* { sort: { createdAt: -1 } }: every order of the selected documents that is
\* non-increasing in createdAt (the store does not order equal keys).
SortedDesc(coll, ids) ==
  IF ids = {} THEN {<<>>}
  ELSE UNION {{<<Row(coll, i)>> \o rest : rest \in SortedDesc(coll, ids \ {i})} :
                i \in Latest(coll, ids)}

FilterArgs ==
  {Str(<<"a", "l", "i">>), Str(<<>>), Str(<<".">>), Str(<<"^", "b">>),
   Str(<<"b", "*">>), Str(<<"(">>), Num, Undef}

publishAllUsers ==
  /\ srv = "up"
  /\ "users.all" \in published
  /\ \E rows \in SortedDesc(users, DOMAIN users) :
       reply' = Call("users.all", <<>>, "none", Rows(rows), Undef, Obj(<<>>))
  /\ before' = NoReply
  /\ UNCHANGED <<links, users, nextId, srv, published, run, writes, fresh, pending, ui>>

\* Faulty variant: check(nameFilter, String) left out; the store then rejects a
\* $regex that is not a string.
publishUsersByName_NoCheck(nameFilter) ==
  /\ srv = "up"
  /\ "users.byName" \in published
  /\ IF ~IsStr(nameFilter) \/ ~RegexValid(nameFilter.s)
       THEN reply' = Call("users.byName", <<nameFilter>>, "StoreError", Undef,
                          Undef, nameFilter)
       ELSE \E rows \in SortedDesc(users, SelectByName(users, nameFilter.s)) :
              reply' = Call("users.byName", <<nameFilter>>, "none", Rows(rows),
                            Undef, nameFilter)
  /\ before' = NoReply
  /\ UNCHANGED <<links, users, nextId, srv, published, run, writes, fresh>>

publishUsersByName(nameFilter) ==
  /\ srv = "up"
  /\ "users.byName" \in published
  /\ IF ~CheckString(nameFilter)
       THEN reply' = Rejected("users.byName", <<nameFilter>>)
       ELSE IF ~RegexValid(nameFilter.s)
       \* the store rejects the query when the cursor is observed
       THEN reply' = Call("users.byName", <<nameFilter>>, "StoreError", Undef,
                          Undef, nameFilter)
       ELSE \E rows \in SortedDesc(users, SelectByName(users, nameFilter.s)) :
              reply' = Call("users.byName", <<nameFilter>>, "none", Rows(rows),
                            Undef, nameFilter)
  /\ before' = NoReply
  /\ UNCHANGED <<links, users, nextId, srv, published, run, writes, fresh>>

publishLinks ==
  /\ srv = "up"
  /\ "links" \in published
  /\ reply' = Call("links", <<>>, "none", Rows(links), Undef, Obj(<<>>))
  /\ before' = NoReply
  /\ UNCHANGED <<links, users, nextId, srv, published, run, writes, fresh, pending, ui>>

SubscribeByName ==
  (\E nameFilter \in FilterArgs : publishUsersByName(nameFilter))
    /\ UNCHANGED <<pending, ui>>

----------------------------------------------------------------------------
(* imports/ui: UsersList, mounted in App next to UsersManager               *)

\* What a user types into the filter input of UsersList.
SearchTerms == {<<>>, <<"a", "l", "i">>, <<"b", "o", "b">>}

\* The documents a ready subscription of UsersList has delivered:
\* search ? useSubscribe('users.byName', search) : useSubscribe('users.all').
ListSubscription(search) ==
  IF search # <<>> THEN SelectByName(users, search) ELSE DOMAIN users

\* The client's copy of the users collection: the documents of every active
\* subscription of the page, merged.  UsersManager holds useSubscribe('users.all')
\* for as long as it is mounted; managerSynced says whether that subscription
\* has delivered its documents yet.
ClientCache(search, managerSynced) ==
  ListSubscription(search) \cup (IF managerSynced THEN DOMAIN users ELSE {})

\* UsersList renders once its own subscription is ready:
\* useFind(() => UsersCollection.find({}, { sort: { createdAt: -1 } })) over the
\* client's copy.  The reply records the search term and the rows displayed.
renderUsersList(search, managerSynced) ==
  /\ srv = "up"
  /\ {"users.all", "users.byName"} \subseteq published
  /\ \E rows \in SortedDesc(users, ClientCache(search, managerSynced)) :
       reply' = Call("UsersList", <<Str(search)>>, "none", Rows(rows), Undef, Undef)
  /\ before' = NoReply
  /\ UNCHANGED <<links, users, nextId, srv, published, run, writes, fresh, pending, ui>>

UsersListRenders ==
  \E search \in SearchTerms, managerSynced \in BOOLEAN :
    renderUsersList(search, managerSynced)

----------------------------------------------------------------------------
(* imports/ui: UsersManager                                                 *)

\* setTimeout(..., 3000), in seconds.
FlashSeconds == 3

\* What a user types into the name inputs.
TypedNames == {<<" ">>, <<" ", "B", "o", "b", " ">>}

RECURSIVE TrimStart(_)
TrimStart(s) == IF s # <<>> /\ Head(s) = " " THEN TrimStart(Tail(s)) ELSE s

RECURSIVE TrimEnd(_)
TrimEnd(s) ==
  IF s # <<>> /\ s[Len(s)] = " " THEN TrimEnd(SubSeq(s, 1, Len(s) - 1)) ELSE s

\* String.prototype.trim
Trim(s) == TrimEnd(TrimStart(s))

\* flash(text, ok): setStatus({ text, ok }) and a timeout that clears the
\* status FlashSeconds later.  `at`, a ghost, is the time of the call.
flash(text, ok) ==
  /\ status' = [text |-> text, ok |-> ok, at |-> clock]
  /\ timers' = timers \cup {clock + FlashSeconds}

\* The catch branch's message for a failed call.
Reason(r) == r.err

handleCreate(typed) ==
  LET name == Trim(typed) IN
  IF name = <<>> THEN UNCHANGED vars
  ELSE /\ create(Obj([name |-> Str(name), createdAt |-> Now]))
       /\ IF reply'.err = "none" THEN flash("User created.", TRUE)
                                 ELSE flash(Reason(reply'), FALSE)
       /\ UNCHANGED <<pending, clock>>

handleUpdate(id, typed) ==
  LET name == Trim(typed) IN
  IF name = <<>> THEN UNCHANGED vars
  ELSE /\ update(Str(id), Obj("$set" :> Obj([name |-> Str(name)])))
       /\ IF reply'.err = "none" THEN flash("User renamed.", TRUE)
                                 ELSE flash(Reason(reply'), FALSE)
       /\ UNCHANGED <<pending, clock>>

handleRemove(id) ==
  /\ remove(Str(id))
  /\ IF reply'.err = "none" THEN flash("User removed.", TRUE)
                            ELSE flash(Reason(reply'), FALSE)
  /\ UNCHANGED <<pending, clock>>

\* The buttons of UsersManager: Add, and Save / Delete on a listed user.
ClickAdd == \E typed \in TypedNames : handleCreate(typed)
ClickSave == \E id \in DOMAIN users, typed \in TypedNames : handleUpdate(id, typed)
ClickDelete == \E id \in DOMAIN users : handleRemove(id)

\* A timeout set by flash comes due: setStatus(null).
TimerFires ==
  /\ \E due \in timers :
       /\ due <= clock
       /\ timers' = timers \ {due}
  /\ status' = NoStatus
  /\ UNCHANGED <<links, users, nextId, srv, published, run, writes, reply, before,
                 fresh, pending, clock>>

\* A second passes on the mounted page; timeouts that are due fire first.
Tick ==
  /\ srv = "up"
  /\ clock < MaxTime
  /\ \A due \in timers : due > clock
  /\ clock' = clock + 1
  /\ UNCHANGED <<links, users, nextId, srv, published, run, writes, reply, before,
                 fresh, pending, status, timers>>

----------------------------------------------------------------------------
(* A write method call in two steps: the handler runs up to its return      *)
(* statement, which hands the caller the promise of the store operation;    *)
(* the store then completes the operation, which settles that promise.      *)

WriteCalls ==
  ({"Users.create"} \X {<<data>> : data \in CreateArgs})
  \cup ({"Users.update"} \X UpdateArgs)
  \cup ({"Users.remove"} \X {<<id>> : id \in IdArgs})

\* The check() calls at the top of each write handler.
Checks(op, args) ==
  CASE op = "Users.create" -> CheckCreateData(args[1])
    [] op = "Users.update" -> CheckString(args[1]) /\ CheckUpdateData(args[2])
    [] op = "Users.remove" -> CheckString(args[1])

\* Does the store refuse the operation p on the collection coll?
StoreRefuses(coll, p) ==
  /\ p.op = "Users.update"
  /\ ~StoreAcceptsModifier(p.args[2]) \/ ~StoreKeepsId(coll, p.args[1].s, p.args[2])

\* The collection after the store has carried out the operation p on coll.
Effect(coll, p) ==
  CASE p.op = "Users.create" -> Override(p.id :> NewDoc(p.args[1]), coll)
    [] p.op = "Users.update" ->
         IF StoreRefuses(coll, p) THEN coll
         ELSE UpdatedUsers(coll, p.args[1].s, p.args[2])
    [] p.op = "Users.remove" -> RemovedUsers(coll, p.args[1].s)

\* What the store operation's promise settles with.
Outcome(coll, p) ==
  CASE p.op = "Users.create" ->
         Call(p.op, p.args, "none", Str(p.id), Undef, Undef)
    [] p.op = "Users.update" ->
         IF StoreRefuses(coll, p)
           THEN Call(p.op, p.args, "StoreError", Undef, Undef, Undef)
           ELSE Call(p.op, p.args, "none", Count(Matched(coll, p.args[1].s)),
                     IF p.args[1].s \in DOMAIN coll THEN Row(coll, p.args[1].s) ELSE Undef,
                     Undef)
    [] p.op = "Users.remove" ->
         Call(p.op, p.args, "none", Count(Matched(coll, p.args[1].s)), Undef, Undef)

\* The store operation a handler issues.  insertAsync picks the new _id when
\* it is called.  expect is a ghost: the collection this operation leaves when
\* the operations take effect in the order they were issued.
StoreOp(op, args) ==
  LET base == IF pending = <<>> THEN users ELSE pending[Len(pending)].expect
      p    == [op |-> op, args |-> args,
               id |-> IF op = "Users.create" THEN IdOf(nextId) ELSE ""]
  IN [op |-> op, args |-> args, id |-> p.id, expect |-> Effect(base, p)]

\* Faulty variant: the handler calls the store without returning or awaiting
\* the promise, so the call resolves (with undefined) at once.
invoke_NoReturn(op, args) ==
  /\ srv = "up"
  /\ IF ~Checks(op, args)
       THEN /\ reply' = Rejected(op, args)
            /\ UNCHANGED <<pending, nextId, writes>>
       ELSE /\ writes < MaxWrites
            /\ op = "Users.create" => nextId <= MaxIds
            /\ pending' = Append(pending, StoreOp(op, args))
            /\ nextId' = IF op = "Users.create" THEN nextId + 1 ELSE nextId
            /\ writes' = writes + 1
            /\ reply' = Call(op, args, "none", Undef, Undef, Undef)
  /\ before' = NoReply
  /\ UNCHANGED <<links, users, srv, published, run, fresh, ui>>

\* create / update / remove up to `return UsersCollection.xAsync(...)`: a
\* failed check rejects the call; otherwise the store operation is issued and
\* the call stays unresolved until that operation's promise settles.
invoke(op, args) ==
  /\ srv = "up"
  /\ IF ~Checks(op, args)
       THEN /\ reply' = Rejected(op, args)
            /\ UNCHANGED <<pending, nextId, writes>>
       ELSE /\ writes < MaxWrites
            /\ op = "Users.create" => nextId <= MaxIds
            /\ pending' = Append(pending, StoreOp(op, args))
            /\ nextId' = IF op = "Users.create" THEN nextId + 1 ELSE nextId
            /\ writes' = writes + 1
            /\ reply' = Call(op, args, "pending", Undef, Undef, Undef)
  /\ before' = NoReply
  /\ UNCHANGED <<links, users, srv, published, run, fresh, ui>>

\* The single caller: `await Meteor.callAsync(...)`, then the next call.
InvokeWrite ==
  /\ reply.err # "pending"
  /\ \E c \in WriteCalls : invoke(c[1], c[2])

\* The store completes one of the operations in flight, in any order, and
\* settles its promise; a call still waiting on it resolves with the outcome.
StoreCompletes ==
  /\ srv = "up"
  /\ \E i \in 1..Len(pending) :
       LET p == pending[i] IN
       /\ users' = Effect(users, p)
       /\ pending' = SubSeq(pending, 1, i - 1) \o SubSeq(pending, i + 1, Len(pending))
       /\ reply' = IF reply.err = "pending" /\ reply.op = p.op /\ reply.args = p.args
                     THEN Outcome(users, p) ELSE reply
  /\ before' = NoReply
  /\ UNCHANGED <<links, nextId, srv, published, run, writes, fresh, ui>>

----------------------------------------------------------------------------

\* One process lifetime over a store whose operations succeed.
Next ==
  \/ Boot
  \/ Startup
  \/ UsersCreate
  \/ UsersRemove
  \/ UsersUpdate
  \/ UsersFind
  \/ publishAllUsers
  \/ SubscribeByName
  \/ publishLinks

Spec == Init /\ [][Next]_vars

\* The seeder across process restarts against a persistent store whose
\* operations may reject: startup runs, restarts, and the method calls that
\* fill and empty the users collection.
NextFaults ==
  \/ Boot
  \/ Startup
  \/ StartupFault
  \/ Shutdown
  \/ UsersCreate
  \/ UsersRemove
  \/ publishLinks

SpecFaults == Init /\ [][NextFaults]_vars

\* One caller that awaits each write call before it issues the next, with
\* the handler's return and the store's completion as separate steps.
NextAsync ==
  \/ Boot
  \/ Startup
  \/ InvokeWrite
  \/ StoreCompletes

SpecAsync == Init /\ [][NextAsync]_vars

\* The App page's users list over a users collection that method calls fill
\* and empty.
NextList ==
  \/ Boot
  \/ Startup
  \/ UsersCreate
  \/ UsersRemove
  \/ UsersListRenders

SpecList == Init /\ [][NextList]_vars

\* The UsersManager component: its buttons, its status message and time.
NextManager ==
  \/ Boot
  \/ Startup
  \/ ClickAdd
  \/ ClickSave
  \/ ClickDelete
  \/ TimerFires
  \/ Tick

SpecManager == Init /\ [][NextManager]_vars

----------------------------------------------------------------------------
(* Claims                                                                   *)

Methods == {"Users.create", "Users.update", "Users.remove", "Users.find"}

HasField(v, k) == IsObj(v) /\ k \in DOMAIN v.f

\* The shape errors the specification lists for each method.
BadArgs(op, args) ==
  CASE op = "Users.create" ->
         \/ ~HasField(args[1], "name") \/ ~IsStr(args[1].f["name"])
         \/ ~HasField(args[1], "createdAt") \/ ~IsDate(args[1].f["createdAt"])
    [] op = "Users.update" ->
         \/ ~IsStr(args[1])
         \/ ~HasField(args[2], "$set") \/ ~IsObj(args[2].f["$set"])
    [] OTHER -> ~IsStr(args[1])

\* C1: a method call whose argument fails its shape check ends with
\* InvalidArgument and leaves both collections as they were before the call.
C1_InvalidArgumentIsNoOp ==
  [][(reply'.op \in Methods /\ BadArgs(reply'.op, reply'.args))
       => (reply'.err = "InvalidArgument" /\ users' = users /\ links' = links)]_vars

C1_Witness ==
  /\ reply.op = "Users.update"
  /\ reply.err = "InvalidArgument"
  /\ IsStr(reply.args[1]) /\ reply.args[1].s \in DOMAIN users

\* A valid payload {name, createdAt}: these two fields, of these types.
IsValidPayload(v) ==
  /\ IsObj(v) /\ DOMAIN v.f = {"name", "createdAt"}
  /\ IsStr(v.f["name"]) /\ IsDate(v.f["createdAt"])

\* C2: Users.create with a valid payload resolves with an identifier, and a
\* Users.find of that identifier issued next returns a row whose name and
\* createdAt are the payload's.
C2_CreateThenFind ==
  /\ (reply.op = "Users.create" /\ IsValidPayload(reply.args[1]))
       => (reply.err = "none" /\ IsStr(reply.val))
  /\ (reply.op = "Users.find" /\ before.op = "Users.create" /\ before.err = "none"
        /\ reply.args = <<before.val>>)
       => /\ reply.err = "none"
          /\ HasField(reply.val, "name") /\ HasField(reply.val, "createdAt")
          /\ reply.val.f["name"] = before.args[1].f["name"]
          /\ reply.val.f["createdAt"] = before.args[1].f["createdAt"]

C2_Witness ==
  /\ reply.op = "Users.find" /\ before.op = "Users.create" /\ before.err = "none"
  /\ reply.args = <<before.val>>
  /\ Cardinality(DOMAIN users) > 1

\* A modifier of the form {$set: {name: X}} with X a string.
IsRename(m) ==
  /\ IsObj(m) /\ DOMAIN m.f = {"$set"}
  /\ IsObj(m.f["$set"]) /\ DOMAIN m.f["$set"].f = {"name"}
  /\ IsStr(m.f["$set"].f["name"])

\* C3: Users.update(id, {$set: {name: X}}) on an existing id resolves, and a
\* Users.find(id) issued next returns a row with name X and the createdAt the
\* row had before the update.
C3_RenameThenFind ==
  /\ (reply.op = "Users.update" /\ reply.pre # Undef /\ IsRename(reply.args[2]))
       => (reply.err = "none" /\ reply.val = Count(1))
  /\ (reply.op = "Users.find" /\ before.op = "Users.update" /\ before.pre # Undef
        /\ IsRename(before.args[2]) /\ reply.args = <<before.args[1]>>)
       => /\ reply.err = "none"
          /\ HasField(reply.val, "name") /\ HasField(reply.val, "createdAt")
          /\ reply.val.f["name"] = before.args[2].f["$set"].f["name"]
          /\ reply.val.f["createdAt"] = before.pre.f["createdAt"]

C3_Witness ==
  /\ reply.op = "Users.find" /\ before.op = "Users.update" /\ before.pre # Undef
  /\ IsRename(before.args[2]) /\ reply.args = <<before.args[1]>>
  /\ before.pre.f["name"] # before.args[2].f["$set"].f["name"]

\* A modifier the handler's check passes and the store takes: an object under
\* $set and no key that is not an update operator.
IsValidModifier(m) ==
  HasField(m, "$set") /\ IsObj(m.f["$set"]) /\ DOMAIN m.f = {"$set"}

\* C4: for a string id that matches no row, Users.update with a valid
\* modifier and Users.remove resolve with the count 0 and leave the users
\* collection unchanged.
C4_UnmatchedIdIsZero ==
  [][(/\ reply'.op \in {"Users.update", "Users.remove"}
      /\ IsStr(reply'.args[1]) /\ reply'.args[1].s \notin DOMAIN users
      /\ (reply'.op = "Users.update" => IsValidModifier(reply'.args[2])))
       => (reply'.err = "none" /\ reply'.val = Count(0) /\ users' = users)]_vars

C4_Witness ==
  /\ reply.op = "Users.update" /\ reply.err = "none" /\ reply.val = Count(0)
  /\ IsValidModifier(reply.args[2])
  /\ DOMAIN users # {}

\* C5: no step changes the createdAt of a row that exists before and after it.
C5_CreatedAtNeverModified ==
  [][\A id \in DOMAIN users \cap DOMAIN users' :
       users'[id]["createdAt"] = users[id]["createdAt"]]_vars

\* s contains f as a literal substring, ignoring case.
Contains(s, f) ==
  \E j \in 0..(Len(s) - Len(f)) : \A k \in 1..Len(f) : Lower(s[j + k]) = Lower(f[k])

RowIds(rows) == {rows[i].f["_id"].s : i \in 1..Len(rows)}

\* C6: for every string filter, users.byName returns exactly the rows whose
\* name contains the filter as a literal, case-insensitive substring.
C6_ByNameIsLiteralSubstring ==
  (reply.op = "users.byName" /\ IsStr(reply.args[1]))
    => /\ reply.err = "none"
       /\ reply.val.t = "rows"
       /\ RowIds(reply.val.r) =
            {id \in DOMAIN users : Contains(users[id]["name"].s, reply.args[1].s)}

\* An evaluation of users.all() or of users.byName("").
IsFullListing(r) ==
  r.op = "users.all" \/ (r.op = "users.byName" /\ r.args = <<Str(<<>>)>>)

\* Every user row exactly once, in non-increasing order of createdAt.
SortedListing ==
  IsFullListing(reply)
    => /\ reply.err = "none"
       /\ reply.val.t = "rows"
       /\ Len(reply.val.r) = Cardinality(DOMAIN users)
       /\ {reply.val.r[i] : i \in 1..Len(reply.val.r)}
            = {Row(users, id) : id \in DOMAIN users}
       /\ \A i, j \in 1..Len(reply.val.r) :
            i < j => reply.val.r[i].f["createdAt"].d >= reply.val.r[j].f["createdAt"].d

StillLatest(id) ==
  /\ id \in DOMAIN users
  /\ \A o \in DOMAIN users \ {id} : SortKey(users[o]) < SortKey(users[id])

C8_NonStringFilterRejected ==
  (reply.op = "users.byName" /\ ~IsStr(reply.args[1]))
    => (reply.err = "InvalidArgument" /\ reply.sel = Undef /\ reply.val = Undef)

C8_Witness ==
  /\ reply.op = "users.byName" /\ reply.args[1] = Num
  /\ reply.err = "InvalidArgument"
  /\ DOMAIN users # {}

LinkPairs == [i \in 1..Len(links) |-> [title |-> links[i].title, url |-> links[i].url]]

UserDocs == {users[id] : id \in DOMAIN users}

SeedUserDocs == {seedUsers[i] : i \in 1..Len(seedUsers)}

\* C9: a startup run inserts nothing into a collection that is non-empty, and
\* after two runs from an empty store (none rejected by the store, no method
\* call having written) links holds the 4 seed pairs once each and users the
\* 3 seed users.
C9_SeederIdempotent ==
  /\ [][run'.n # run.n
          => /\ Len(links) > 0 => links' = links
             /\ DOMAIN users # {} => users' = users]_vars
  /\ []((run.n >= 2 /\ ~run.everFailed)
          => /\ LinkPairs = seedLinks
             /\ writes = 0 => (Cardinality(DOMAIN users) = 3 /\ UserDocs = SeedUserDocs))

C9_Witness ==
  /\ run.n = 2 /\ ~run.everFailed /\ writes = 0 /\ srv = "up"
  /\ run.linksSeen = 4 /\ run.usersSeen = 3
  /\ LinkPairs = seedLinks

\* C10: in a startup run whose links seeding is rejected by the store, the
\* users collection is still seeded when it is empty, and the other way round.
C10_SeedingIndependent ==
  [][run'.n # run.n
       => /\ (run'.failed = "links" /\ DOMAIN users = {})
               => (Cardinality(DOMAIN users') = 3 /\ {users'[id] : id \in DOMAIN users'} = SeedUserDocs)
          /\ (run'.failed = "users" /\ Len(links) = 0)
               => Len(links') = 4]_vars

\* C11: the identifier of a user row is assigned by the store, never by the
\* caller: Users.create rejects a payload that carries an _id field and
\* changes nothing; a create that resolves adds one row under an identifier
\* that was not in use and stores no _id the caller chose; and no
\* Users.update call moves a row to another identifier or stores an _id that
\* differs from the row's own.
C11_IdentifierStoreAssigned ==
  [][/\ (reply'.op = "Users.create" /\ HasField(reply'.args[1], "_id"))
          => (reply'.err = "InvalidArgument" /\ users' = users)
     /\ (reply'.op = "Users.create" /\ reply'.err = "none")
          => /\ reply'.val.s \notin DOMAIN users
             /\ DOMAIN users' = DOMAIN users \cup {reply'.val.s}
             /\ "_id" \notin DOMAIN users'[reply'.val.s]
     /\ reply'.op = "Users.update"
          => /\ DOMAIN users' = DOMAIN users
             /\ \A id \in DOMAIN users' :
                  "_id" \in DOMAIN users'[id] => users'[id]["_id"] = Str(id)]_vars

\* A row that Users.create added exists, and an update that names another
\* identifier for the first row has been refused by the store.
C11_Witness ==
  /\ reply.op = "Users.update" /\ reply.args = <<Str(IdOf(1)), IdModifier>>
  /\ reply.err = "StoreError"
  /\ IdOf(1) \in DOMAIN users
  /\ IdOf(MaxIds) \in DOMAIN users

\* C12: Users.find with a string id never fails: it resolves with the row
\* stored under that id (its fields and its _id) when there is one and with
\* undefined when there is none, and it changes neither users nor links.
C12_FindReturnsRowOrUndefined ==
  [][(reply'.op = "Users.find" /\ IsStr(reply'.args[1]))
       => LET id == reply'.args[1].s
              val == reply'.val
          IN /\ reply'.err = "none"
             /\ IF id \in DOMAIN users
                  THEN /\ IsObj(val)
                       /\ DOMAIN val.f = DOMAIN users[id] \cup {"_id"}
                       /\ val.f["_id"] = Str(id)
                       /\ \A k \in DOMAIN users[id] \ {"_id"} : val.f[k] = users[id][k]
                  ELSE val = Undef
             /\ users' = users
             /\ links' = links]_vars

\* Users.find has resolved with undefined for the id of a row that was
\* removed, while other rows exist.
C12_Witness ==
  /\ reply.op = "Users.find" /\ reply.args = <<Str(IdOf(1))>>
  /\ reply.err = "none" /\ reply.val = Undef
  /\ IdOf(1) \notin DOMAIN users
  /\ IdOf(2) \in DOMAIN users

\* C13: link rows are written only by the startup seeder, and only when the
\* links collection is empty at that moment: a step that changes links is a
\* startup run that found links empty, and no Users.create, Users.update,
\* Users.remove or Users.find call and no evaluation of users.all,
\* users.byName or links changes links.
C13_LinksOnlySeeded ==
  [][/\ links' # links => (run'.n = run.n + 1 /\ Len(links) = 0)
     /\ reply'.op \in Methods \cup {"users.all", "users.byName", "links"}
          => links' = links]_vars

\* The seeded links have been read by the links query after method calls
\* wrote to users.
C13_Witness ==
  /\ reply.op = "links" /\ reply.val = Rows(links)
  /\ Len(links) = 4
  /\ writes = MaxWrites

\* C14: Users.update(id, m) and Users.remove(id) touch at most the row whose
\* identifier is id: every other row is still there after the call, equal to
\* what it was, and the call adds no row.
C14_OnlyTargetRowChanges ==
  [][(reply'.op \in {"Users.update", "Users.remove"} /\ IsStr(reply'.args[1]))
       => /\ DOMAIN users' \subseteq DOMAIN users
          /\ \A k \in DOMAIN users \ {reply'.args[1].s} :
               k \in DOMAIN users' /\ users'[k] = users[k]]_vars

\* An update has changed its target row while two other rows exist.
C14_Witness ==
  /\ reply.op = "Users.update" /\ reply.err = "none" /\ reply.val = Count(1)
  /\ reply.args[1].s \in DOMAIN users
  /\ Row(users, reply.args[1].s) # reply.pre
  /\ Cardinality(DOMAIN users) >= 3

\* A modifier the validation of Users.update is meant to let through.
HasSetObject(m) == HasField(m, "$set") /\ IsObj(m.f["$set"])

\* The fields named under $set have the given values in the row stored under
\* id, and the row's other fields are what they were.
SetApplied(id, m) ==
  LET set == m.f["$set"].f IN
  /\ id \in DOMAIN users'
  /\ DOMAIN users'[id] = DOMAIN users[id] \cup DOMAIN set
  /\ \A k \in DOMAIN set : users'[id][k] = set[k]
  /\ \A k \in DOMAIN users[id] \ DOMAIN set : users'[id][k] = users[id][k]

\* The store takes the modifier for the row under id: all its top-level keys
\* are update operators and it names no other identifier for a matched row.
StoreTakes(id, m) ==
  /\ \A k \in DOMAIN m.f : IsOperatorKey(k)
  /\ (id \in DOMAIN users /\ "_id" \in DOMAIN m.f["$set"].f)
       => m.f["$set"].f["_id"] = Str(id)

C16_ResolvesAfterStoreInOrder ==
  /\ [](reply.err \notin {"pending", "InvalidArgument"} => pending = <<>>)
  /\ [][Len(pending') < Len(pending)
          => /\ pending' = Tail(pending)
             /\ users' = pending[1].expect
             /\ reply'.err # "pending"]_vars

\* Two write calls have been issued one after the other and both have
\* resolved: a create, then a rename of the created row.
C16_Witness ==
  /\ writes = 2 /\ pending = <<>>
  /\ reply.op = "Users.update" /\ reply.err = "none" /\ reply.val = Count(1)
  /\ reply.args[1] = Str(IdOf(MaxIds))
  /\ IdOf(MaxIds) \in DOMAIN users

\* C17 as stated: a query definition is registered in a process only after
\* that process's startup seeding of both collections has completed.
C17_AllRegisteredAfterSeeding ==
  published # {} => srv = "up"

\* C17, amended: users.all and users.byName are registered when the server
\* bundle loads, before the startup seeder runs; links alone is registered
\* after the seeding of both collections has completed without a rejection.
C17_OnlyLinksRegisteredAfterSeeding ==
  /\ "links" \in published => (srv = "up" /\ run.n >= 1 /\ run.failed = "none")
  /\ srv = "loaded" => published = {"users.all", "users.byName"}
  /\ srv = "up" => published = {"users.all", "users.byName", "links"}

\* The bundle is loaded and the two users queries are registered while both
\* collections are still empty and no startup run has happened.
C17_Witness ==
  /\ srv = "loaded" /\ run.n = 0
  /\ {"users.all", "users.byName"} \subseteq published
  /\ Len(links) = 0 /\ users = NoUsers

\* C18: in App, whenever UsersList has rendered its rows (its subscription
\* is ready), with a non-empty search term the rows are only users whose
\* name matches the term, and with the empty term they are all users.
C18_ListShowsOnlyMatches ==
  reply.op = "UsersList"
    => IF reply.args[1].s # <<>>
         THEN RowIds(reply.val.r) \subseteq SelectByName(users, reply.args[1].s)
         ELSE RowIds(reply.val.r) = DOMAIN users

\* C19: a status message that flash has put on display is cleared exactly
\* FlashSeconds after that flash call: it is not cleared earlier (a newer
\* flash may replace it), and it is not on display later than that.
C19_FlashStaysThreeSeconds ==
  /\ [][(status # NoStatus /\ status' = NoStatus)
          => clock >= status.at + FlashSeconds]_vars
  /\ [](status # NoStatus => clock <= status.at + FlashSeconds)

====
